---- MODULE Spec2Model ----
(***************************************************************************)
(* A model of set-genome's recurrent-connection mutation, its mutation     *)
(* dispatcher and its connection gene.                                     *)
(*                                                                         *)
(*   src/src/genes/connections.rs                 Connection               *)
(*   src/src/mutations/add_recurrent_connection.rs                         *)
(*   src/src/mutations/mod.rs                     Mutations::mutate        *)
(*                                                                         *)
(* f32 values (weights, caps, perturbations, chances, uniform draws) are   *)
(* fixed-point numbers: the integer n stands for n / Scale.  Halving       *)
(* rounds toward zero, so a perturbation that is halved often enough       *)
(* becomes 0, as an f32 underflows to 0.                                   *)
(***************************************************************************)
EXTENDS Integers, Sequences, FiniteSets, Bags, TLC

\* ------------------------------------------------------------------ bounds

\* Half of the number of fixed-point units in 1.0.
HalfScale == 50
\* Nodes of a genome (inputs, hidden and outputs together).
MaxNodes == 3
\* Connection gene instances alive in the gene pool.
MaxGenes == 3
\* Largest id_counter a gene of the pool is driven to.
MaxCounter == 2
\* Contraction steps followed before the loop is left to itself.
MaxSteps == 42
\* Calls of Mutations::mutate in one run.
MaxMutations == 2

\* --------------------------------------------------------- program constants

\* (0..12) in weight_perturbation.
NumDraws == 12
\* "- 6.0" in weight_perturbation.
Shift == 6
\* "/ 2.0" in weight_perturbation.
Divisor == 2

Scale == 2 * HalfScale
Half == Scale \div 2
\* 0.99 in fixed point.
W099 == (99 * Scale) \div 100

VARIABLES
    \* Genome: node collections in their iteration order, the activation of
    \* each hidden node, the two connection sets.
    inputs, hidden, outputs, activations, feed_forward, recurrent,
    \* The last MutationResult and the operators the last call invoked, in order.
    result, invoked,
    \* The variant, the draw and the chance of the last Mutations::mutate call,
    \* and the number of mutate calls so far.
    gate, mutations,
    \* The live Connection instances (a bag: instances in the same state are
    \* told apart by their number only), each with the ids it has returned
    \* from next_id and the ids its source had returned when it was copied;
    \* and the last operation on the pool, with the instances a new instance
    \* was made from.
    genes, lastGeneOp,
    \* One call of weight_perturbation, statement by statement.
    wpWeight, wpCap, wpPert, wpSteps, wpPc

genomeVars == <<inputs, hidden, outputs, activations, feed_forward, recurrent,
                result, invoked, gate, mutations>>
geneVars == <<genes, lastGeneOp>>
wpVars == <<wpWeight, wpCap, wpPert, wpSteps, wpPc>>
vars == <<genomeVars, geneVars, wpVars>>

\* ------------------------------------------------------------ Connection

Connection(input, weight, output, id_counter) ==
    [input |-> input, output |-> output, weight |-> weight, id_counter |-> id_counter]

\* Connection::new
ConnectionNew(input, weight, output) == Connection(input, weight, output, 0)

\* Connection::id
ConnectionId(c) == <<c.input, c.output>>

\* impl PartialEq for Connection
ConnectionEq(a, b) == ConnectionId(a) = ConnectionId(b)

\* ---------------------------------------------------- weight perturbation

\* rng.gen::<f32>(): a uniform draw in [0, 1).
UnitDraws == 0 .. (Scale - 1)

\* The sum of NumDraws draws, minus Shift.
InitialPerturbations == { s - Shift * Scale : s \in 0 .. (NumDraws * (Scale - 1)) }

\* The loop condition with its second test left out.
OutOfCapUpperOnly(weight, weight_cap, perturbation) ==
    (weight + perturbation) > weight_cap

\* The loop condition of weight_perturbation.
OutOfCap(weight, weight_cap, perturbation) ==
    \/ (weight + perturbation) > weight_cap
    \/ (weight + perturbation) < -weight_cap

\* perturbation = -perturbation / 2.0 (rounding toward zero).
Contract(perturbation) ==
    IF perturbation >= 0 THEN -(perturbation \div Divisor)
                         ELSE (-perturbation) \div Divisor

\* The loop of weight_perturbation from a given perturbation on: whether it
\* is ever left, and the value then returned.  Once the perturbation is 0 and
\* the weight is out of the cap, the loop's state no longer changes and the
\* call never returns.
RECURSIVE WeightPerturbationLoop(_, _, _)
WeightPerturbationLoop(weight, weight_cap, perturbation) ==
    IF OutOfCap(weight, weight_cap, perturbation)
    THEN IF perturbation = 0
         THEN [returns |-> FALSE, value |-> weight]
         ELSE WeightPerturbationLoop(weight, weight_cap, Contract(perturbation))
    ELSE [returns |-> TRUE, value |-> weight + perturbation]

\* Connection::weight_perturbation, the rng's draws summed up in `sample`.
WeightPerturbation(weight, weight_cap, sample) ==
    WeightPerturbationLoop(weight, weight_cap, sample).value

\* Whether that call returns at all.
WeightPerturbationReturns(weight, weight_cap, sample) ==
    WeightPerturbationLoop(weight, weight_cap, sample).returns

\* ----------------------------------------------------------------- genome

Genome == [inputs |-> inputs, hidden |-> hidden, outputs |-> outputs,
           activations |-> activations,
           feed_forward |-> feed_forward, recurrent |-> recurrent]

SeqSet(s) == { s[i] : i \in 1 .. Len(s) }

\* HashSet::contains, with Connection's Eq and Hash (by id).
Contains(set, c) == \E x \in set : ConnectionEq(x, c)

\* HashSet::insert: the set, and whether the value was newly inserted.
Insert(set, c) ==
    IF Contains(set, c) THEN [set |-> set, inserted |-> FALSE]
                        ELSE [set |-> set \cup {c}, inserted |-> TRUE]

\* start_node_iterator
StartNodes == inputs \o hidden \o outputs

\* end_node_iterator
EndNodes == hidden \o outputs

\* .take(genome.inputs.len() + genome.hidden.len())
TakeCount == Len(inputs) + Len(hidden)

\* (rng.gen::<f64>() * (inputs.len() + hidden.len()) as f64).floor() as usize
SkipCount(draw) == (draw * TakeCount) \div Scale

\* .cycle().skip(..).take(..): the start nodes the loop visits, in order.
VisitedStarts(draw) ==
    IF Len(StartNodes) = 0 THEN << >>
    ELSE [j \in 1 .. TakeCount |->
            StartNodes[((SkipCount(draw) + j - 1) % Len(StartNodes)) + 1]]

\* The closure without its look into the recurrent set.
IsFreeEndIgnoringRecurrent(start_node, end_node) ==
    end_node # start_node

\* The closure without its comparison of the two nodes.
IsFreeEndAllowingSelf(start_node, end_node) ==
    ~Contains(recurrent, ConnectionNew(start_node, 0, end_node))

\* The closure handed to find().
IsFreeEnd(start_node, end_node) ==
    /\ end_node # start_node
    /\ ~Contains(recurrent, ConnectionNew(start_node, 0, end_node))

\* end_node_iterator.clone().find(..): the index of the first match, 0 if none.
FindEnd(start_node) ==
    LET hits == { k \in 1 .. Len(EndNodes) : IsFreeEnd(start_node, EndNodes[k]) }
    IN IF hits = {} THEN 0 ELSE CHOOSE k \in hits : \A m \in hits : k <= m

\* The first visited start node for which find() returns Some, 0 if none.
FirstStart(draw) ==
    LET visited == VisitedStarts(draw)
        hits == { j \in 1 .. Len(visited) : FindEnd(visited[j]) # 0 }
    IN IF hits = {} THEN 0 ELSE CHOOSE j \in hits : \A m \in hits : j <= m

\* The weight cap add_recurrent_connection passes (1.0).
NewWeightCap == Scale

\* add_recurrent_connection handing Connection::new the two nodes in the
\* wrong order.
AddRecurrentConnectionSwapped(draw, sample) ==
    LET j == FirstStart(draw)
    IN IF j = 0
       THEN [recurrent |-> recurrent, result |-> "CouldNotAddRecurrentConnection"]
       ELSE LET start_node == VisitedStarts(draw)[j]
                end_node == EndNodes[FindEnd(start_node)]
                ins == Insert(recurrent,
                              ConnectionNew(end_node,
                                            WeightPerturbation(0, NewWeightCap, sample),
                                            start_node))
            IN IF ins.inserted
               THEN [recurrent |-> ins.set, result |-> "Ok"]
               ELSE [recurrent |-> ins.set, result |-> "panic"]

\* Mutations::add_recurrent_connection: the recurrent set and the result.
AddRecurrentConnectionOutcome(draw, sample) ==
    LET j == FirstStart(draw)
    IN IF j = 0
       THEN [recurrent |-> recurrent, result |-> "CouldNotAddRecurrentConnection"]
       ELSE LET start_node == VisitedStarts(draw)[j]
                end_node == EndNodes[FindEnd(start_node)]
                ins == Insert(recurrent,
                              ConnectionNew(start_node,
                                            WeightPerturbation(0, NewWeightCap, sample),
                                            end_node))
            IN IF ins.inserted
               THEN [recurrent |-> ins.set, result |-> "Ok"]
               ELSE [recurrent |-> ins.set, result |-> "panic"]

\* ------------------------------------------- initial genomes and rng draws

\* Node ids are opaque, and the code compares them for equality only, so a
\* genome is named up to renaming by the sizes of its node collections: the
\* ids are numbered in the collections' iteration order.
NodeSeq(first, count) == [k \in 1 .. count |-> first + k - 1]

\* The draws an rng hands to the offset computation.
GateDraws == {0, Scale \div 4, Half, (3 * Scale) \div 4, Scale - 1}

\* The perturbation samples the genome's operators are run with.
PertSamples == {-(Shift * Scale), Scale + 1}

\* Feed-forward connections from lower to higher node ids (acyclic).
ForwardConnections(ins, hid, outs) ==
    { ConnectionNew(s, Half, e) :
        <<s, e>> \in { p \in (SeqSet(ins) \cup SeqSet(hid)) \X (SeqSet(hid) \cup SeqSet(outs)) :
                         p[1] < p[2] } }

NoGate == [variant |-> "none", draw |-> -1, chance |-> -1]

\* The activation a hidden node starts with, and the pool mutations draw from.
InitialActivation == "Tanh"
ActivationPool == {"Linear", "Sigmoid"}

NoGene == [input |-> 0, output |-> 0, weight |-> 0, id_counter |-> 0]

GeneOp(op, self, other, child) ==
    [op |-> op, self |-> self, other |-> other, child |-> child]

GeneInitIdle ==
    /\ genes = EmptyBag
    /\ lastGeneOp = GeneOp("none", NoGene, NoGene, NoGene)

WpInitIdle ==
    /\ wpWeight = 0
    /\ wpCap = 0
    /\ wpPert = 0
    /\ wpSteps = 0
    /\ wpPc = "idle"

\* A genome of nI input, nH hidden and nO output nodes, nothing recurrent yet,
\* before any call.
GenomeOfShape(nI, nH, nO) ==
    /\ inputs = NodeSeq(1, nI)
    /\ hidden = NodeSeq(nI + 1, nH)
    /\ outputs = NodeSeq(nI + nH + 1, nO)
    /\ feed_forward \in { {}, ForwardConnections(inputs, hidden, outputs) }
    /\ recurrent = {}
    /\ result = "none"
    /\ activations = [n \in SeqSet(hidden) |-> InitialActivation]
    /\ invoked = << >>
    /\ gate = NoGate
    /\ mutations = 0

\* Every genome of at most MaxNodes nodes with an input and an output.
GenomeInit ==
    \E nI \in 1 .. MaxNodes, nH \in 0 .. MaxNodes, nO \in 1 .. MaxNodes :
        /\ nI + nH + nO <= MaxNodes
        /\ GenomeOfShape(nI, nH, nO)

\* The genome at rest while connection genes or a perturbation are followed.
GenomeIdle ==
    /\ GenomeOfShape(1, 0, 1)
    /\ feed_forward = {}

\* The genomes mutate is run on: one input, one output, at most one hidden node.
MutateGenomeInit ==
    \E nH \in 0 .. 1 : GenomeOfShape(1, nH, 1)

\* ------------------------------------------------------------ genome actions

\* A direct call of Mutations::add_recurrent_connection(genome, rng).
AddRecurrentConnection ==
    \E draw \in GateDraws, sample \in PertSamples :
        LET out == AddRecurrentConnectionOutcome(draw, sample)
        IN /\ recurrent' = out.recurrent
           /\ result' = out.result
           /\ invoked' = <<"add_recurrent_connection">>
           /\ UNCHANGED <<inputs, hidden, outputs, activations, feed_forward>>
           /\ UNCHANGED <<gate, mutations>>
           /\ UNCHANGED <<geneVars, wpVars>>

\* ------------------------------------------------- the other operators
\* The operators below are modules of the repository whose code is not among
\* the source files at hand (mod.rs lines 10-18 declare them); they follow the
\* mutation catalog of the specification.

GenomeWith(fields, res) ==
    [g |-> fields, result |-> res]

RemoveSeq(s, x) == SelectSeq(s, LAMBDA y : y # x)

\* The sequences that hold x at some position of s.
InsertAnywhere(s, x) ==
    { SubSeq(s, 1, k) \o <<x>> \o SubSeq(s, k + 1, Len(s)) : k \in 0 .. Len(s) }

AllNodes == SeqSet(inputs) \cup SeqSet(hidden) \cup SeqSet(outputs)

\* The nodes that feed-forward connections lead to from the nodes of `from`.
RECURSIVE ReachableFrom(_, _)
ReachableFrom(from, rounds) ==
    IF rounds = 0 THEN from
    ELSE ReachableFrom(from \cup { c.output : c \in { d \in feed_forward : d.input \in from } },
                       rounds - 1)

\* Whether a feed-forward connection start -> end would close a cycle.
ClosesCycle(start_node, end_node) ==
    start_node \in ReachableFrom({end_node}, Cardinality(AllNodes))

\* Mutations::add_connection: a new feed-forward connection between two nodes
\* not yet joined, keeping the feed-forward graph acyclic.
AddConnectionOutcomes(sample) ==
    LET free == { p \in (SeqSet(inputs) \cup SeqSet(hidden)) \X (SeqSet(hidden) \cup SeqSet(outputs)) :
                    /\ p[1] # p[2]
                    /\ ~Contains(feed_forward, ConnectionNew(p[1], 0, p[2]))
                    /\ ~ClosesCycle(p[1], p[2]) }
    IN IF free = {}
       THEN { GenomeWith(Genome, "CouldNotAddConnection") }
       ELSE { GenomeWith([Genome EXCEPT !.feed_forward =
                             @ \cup {ConnectionNew(p[1], WeightPerturbation(0, NewWeightCap, sample), p[2])}],
                         "Ok") : p \in free }

\* Mutations::remove_recurrent_connection: removes one recurrent connection.
RemoveRecurrentConnectionOutcomes ==
    IF recurrent = {}
    THEN { GenomeWith(Genome, "CouldNotRemoveRecurrentConnection") }
    ELSE { GenomeWith([Genome EXCEPT !.recurrent = @ \ {c}], "Ok") : c \in recurrent }

\* Mutations::remove_connection: removes one feed-forward connection.
RemoveConnectionOutcomes ==
    IF feed_forward = {}
    THEN { GenomeWith(Genome, "CouldNotRemoveConnection") }
    ELSE { GenomeWith([Genome EXCEPT !.feed_forward = @ \ {c}], "Ok") : c \in feed_forward }

\* Mutations::remove_node: removes one hidden node and its connections.
RemoveNodeOutcomes ==
    IF hidden = << >>
    THEN { GenomeWith(Genome, "CouldNotRemoveNode") }
    ELSE { GenomeWith([Genome EXCEPT
                          !.hidden = RemoveSeq(@, n),
                          !.activations = [m \in SeqSet(hidden) \ {n} |-> @[m]],
                          !.feed_forward = { c \in @ : c.input # n /\ c.output # n },
                          !.recurrent = { c \in @ : c.input # n /\ c.output # n }],
                      "Ok") : n \in SeqSet(hidden) }

\* Mutations::add_node: splits one feed-forward connection by a new hidden
\* node; nothing to split, nothing done.  The rehashed hidden set may hold the
\* new node at any place of its iteration order.
AddNodeOutcomes(activation_pool) ==
    LET new_node == CHOOSE n \in 1 .. (Cardinality(AllNodes) + 1) : n \notin AllNodes
    IN IF feed_forward = {}
       THEN { Genome }
       ELSE { [Genome EXCEPT
                 !.hidden = h,
                 !.activations = [m \in SeqSet(hidden) \cup {new_node} |->
                                     IF m = new_node THEN a ELSE @[m]],
                 !.feed_forward = (@ \ {c}) \cup {ConnectionNew(c.input, c.weight, new_node),
                                                  ConnectionNew(new_node, c.weight, c.output)}] :
              <<c, a, h>> \in feed_forward \X activation_pool \X InsertAnywhere(hidden, new_node) }

\* Mutations::change_activation: one hidden node gets an activation of the pool.
ChangeActivationOutcomes(activation_pool) ==
    IF hidden = << >>
    THEN { Genome }
    ELSE { [Genome EXCEPT !.activations[n] = a] :
              <<n, a>> \in SeqSet(hidden) \X activation_pool }

Perturbed(set, chosen, weight_cap, sample) ==
    { IF c \in chosen
      THEN [c EXCEPT !.weight = WeightPerturbation(c.weight, weight_cap, sample)]
      ELSE c : c \in set }

\* Mutations::change_weights: perturbs the weights of some of the connections.
\* No outcome where a perturbation never returns.
ChangeWeightsOutcomes(weight_cap, sample) ==
    { [Genome EXCEPT !.feed_forward = Perturbed(@, chosen_ff, weight_cap, sample),
                     !.recurrent = Perturbed(@, chosen_r, weight_cap, sample)] :
        <<chosen_ff, chosen_r>> \in
            { p \in (SUBSET feed_forward) \X (SUBSET recurrent) :
                \A c \in p[1] \cup p[2] :
                    WeightPerturbationReturns(c.weight, weight_cap, sample) } }

\* ------------------------------------------------------- Mutations::mutate

\* The chance fields the variants are configured with.
Chances == {Half, Scale}

\* The draws an rng hands to mutate's gate.
MutateDraws == {0, Half}

\* The weight_cap field ChangeWeights is configured with.
WeightCaps == {Scale}

\* The gate with <= for <.
GateInclusive(draw, chance) == draw <= chance

\* rng.gen::<f32>() < chance
Gate(draw, chance) == draw < chance

SetGenome(g) ==
    /\ inputs' = g.inputs
    /\ hidden' = g.hidden
    /\ outputs' = g.outputs
    /\ activations' = g.activations
    /\ feed_forward' = g.feed_forward
    /\ recurrent' = g.recurrent

\* The gate is closed: the match arm does nothing and mutate returns Ok(()).
Skipped ==
    /\ SetGenome(Genome)
    /\ invoked' = << >>
    /\ result' = "Ok"

\* An arm that returns what its operator returns.
Returning(name, outcomes) ==
    \E out \in outcomes :
        /\ SetGenome(out.g)
        /\ invoked' = <<name>>
        /\ result' = out.result

\* An arm whose operator returns nothing: mutate goes on to Ok(()).
FallingThrough(name, genomes) ==
    \E g \in genomes :
        /\ SetGenome(g)
        /\ invoked' = <<name>>
        /\ result' = "Ok"

\* What every call of mutate does before its match: one draw per call.
Called(variant, draw, chance) ==
    /\ mutations < MaxMutations
    /\ mutations' = mutations + 1
    /\ gate' = [variant |-> variant, draw |-> draw, chance |-> chance]
    /\ UNCHANGED <<geneVars, wpVars>>

MutateChangeWeights ==
    \E chance \in Chances, draw \in MutateDraws, weight_cap \in WeightCaps, sample \in PertSamples :
        /\ Called("ChangeWeights", draw, chance)
        /\ IF Gate(draw, chance)
           THEN FallingThrough("change_weights", ChangeWeightsOutcomes(weight_cap, sample))
           ELSE Skipped

MutateAddNode ==
    \E chance \in Chances, draw \in MutateDraws :
        /\ Called("AddNode", draw, chance)
        /\ Cardinality(AllNodes) < MaxNodes
        /\ IF Gate(draw, chance)
           THEN FallingThrough("add_node", AddNodeOutcomes(ActivationPool))
           ELSE Skipped

MutateAddConnection ==
    \E chance \in Chances, draw \in MutateDraws, sample \in PertSamples :
        /\ Called("AddConnection", draw, chance)
        /\ IF Gate(draw, chance)
           THEN Returning("add_connection", AddConnectionOutcomes(sample))
           ELSE Skipped

MutateAddRecurrentConnection ==
    \E chance \in Chances, draw \in MutateDraws, offset \in GateDraws, sample \in PertSamples :
        /\ Called("AddRecurrentConnection", draw, chance)
        /\ IF Gate(draw, chance)
           THEN LET out == AddRecurrentConnectionOutcome(offset, sample)
                IN Returning("add_recurrent_connection",
                             { GenomeWith([Genome EXCEPT !.recurrent = out.recurrent],
                                          out.result) })
           ELSE Skipped

MutateChangeActivation ==
    \E chance \in Chances, draw \in MutateDraws :
        /\ Called("ChangeActivation", draw, chance)
        /\ IF Gate(draw, chance)
           THEN FallingThrough("change_activation", ChangeActivationOutcomes(ActivationPool))
           ELSE Skipped

MutateRemoveNode ==
    \E chance \in Chances, draw \in MutateDraws :
        /\ Called("RemoveNode", draw, chance)
        /\ IF Gate(draw, chance)
           THEN Returning("remove_node", RemoveNodeOutcomes)
           ELSE Skipped

MutateRemoveConnection ==
    \E chance \in Chances, draw \in MutateDraws :
        /\ Called("RemoveConnection", draw, chance)
        /\ IF Gate(draw, chance)
           THEN Returning("remove_connection", RemoveConnectionOutcomes)
           ELSE Skipped

MutateRemoveRecurrentConnection ==
    \E chance \in Chances, draw \in MutateDraws :
        /\ Called("RemoveRecurrentConnection", draw, chance)
        /\ IF Gate(draw, chance)
           THEN Returning("remove_recurrent_connection", RemoveRecurrentConnectionOutcomes)
           ELSE Skipped

\* Mutations::mutate: the match over the variants.
Mutate ==
    \/ MutateChangeWeights
    \/ MutateAddNode
    \/ MutateAddConnection
    \/ MutateAddRecurrentConnection
    \/ MutateChangeActivation
    \/ MutateRemoveNode
    \/ MutateRemoveConnection
    \/ MutateRemoveRecurrentConnection

\* ---------------------------------------------------- connection genes

\* SeaHasher fed input, output and id_counter: the hash stands for exactly
\* what was written to the hasher (no two inputs collide).
SeaHash(input, output, id_counter) == <<input, output, id_counter>>

\* next_id without "self.id_counter += 1".
NextIdNoIncrement(c) ==
    [gene |-> c, id |-> SeaHash(c.input, c.output, c.id_counter)]

\* Connection::next_id: the gene after the call and the id returned.
NextId(c) ==
    [gene |-> [c EXCEPT !.id_counter = @ + 1],
     id |-> SeaHash(c.input, c.output, c.id_counter)]

\* Connection::perturb_weight
PerturbWeight(c, weight_cap, sample) ==
    [c EXCEPT !.weight = WeightPerturbation(c.weight, weight_cap, sample)]

\* A clone that starts counting at zero again.
CloneResetCounter(c) == Connection(c.input, c.weight, c.output, 0)

\* #[derive(Clone)]
Clone(c) == Connection(c.input, c.weight, c.output, c.id_counter)

\* recombine without "weight: other.weight".
RecombineKeepingWeight(self, other) ==
    Connection(self.input, self.weight, self.output, self.id_counter)

\* Gene::recombine for Connection: weight: other.weight, ..*self
Recombine(self, other) ==
    Connection(self.input, other.weight, self.output, self.id_counter)

\* The endpoints and weights genes are created with, the draws they are
\* perturbed with.
GeneInputs == {1, 2}
GeneOutputs == {3}
GeneWeights == {0, Half}
GeneSamples == {Scale}

\* An instance of the pool.
Instance(c, issued, inherited) == [gene |-> c, issued |-> issued, inherited |-> inherited]

One(x) == SetToBag({x})

\* Every id an instance or the instances it was copied from have returned.
IdsOf(x) == x.inherited \cup SeqSet(x.issued)

\* A new instance joins the pool; `inherited` are the ids its source has
\* handed out so far.
Joins(c, inherited) ==
    /\ BagCardinality(genes) < MaxGenes
    /\ genes' = genes (+) One(Instance(c, << >>, inherited))

GeneNew ==
    \E input \in GeneInputs, output \in GeneOutputs, weight \in GeneWeights :
        LET c == ConnectionNew(input, weight, output)
        IN /\ Joins(c, {})
           /\ lastGeneOp' = GeneOp("new", NoGene, NoGene, c)
           /\ UNCHANGED <<genomeVars, wpVars>>

GeneNextId ==
    \E x \in BagToSet(genes) :
        /\ x.gene.id_counter < MaxCounter
        /\ LET out == NextId(x.gene)
           IN /\ genes' = (genes (-) One(x))
                             (+) One(Instance(out.gene, Append(x.issued, out.id), x.inherited))
              /\ lastGeneOp' = GeneOp("next_id", NoGene, NoGene, NoGene)
        /\ UNCHANGED <<genomeVars, wpVars>>

GenePerturbWeight ==
    \E x \in BagToSet(genes), sample \in GeneSamples :
        /\ WeightPerturbationReturns(x.gene.weight, Scale, sample)
        /\ LET c == PerturbWeight(x.gene, Scale, sample)
           IN /\ genes' = (genes (-) One(x)) (+) One(Instance(c, x.issued, x.inherited))
              /\ lastGeneOp' = GeneOp("perturb_weight", NoGene, NoGene, NoGene)
        /\ UNCHANGED <<genomeVars, wpVars>>

GeneClone ==
    \E x \in BagToSet(genes) :
        LET c == Clone(x.gene)
        IN /\ Joins(c, IdsOf(x))
           /\ lastGeneOp' = GeneOp("clone", x.gene, NoGene, c)
           /\ UNCHANGED <<genomeVars, wpVars>>

GeneRecombine ==
    \E x \in BagToSet(genes), y \in BagToSet(genes) :
        LET c == Recombine(x.gene, y.gene)
        IN /\ Joins(c, IdsOf(x))
           /\ lastGeneOp' = GeneOp("recombine", x.gene, y.gene, c)
           /\ UNCHANGED <<genomeVars, wpVars>>

NextGene ==
    \/ GeneNew
    \/ GeneNextId
    \/ GenePerturbWeight
    \/ GeneClone
    \/ GeneRecombine

\* ------------------------------------- weight_perturbation, step by step

\* The weights and caps weight_perturbation is called with: weights inside,
\* on and outside the cap.
PerturbWeights == {-Scale, -W099, 0, Half, W099, Scale, Scale + Half}
PerturbCaps == {Half, Scale}

\* let mut perturbation = (0..12).map(|_| rng.gen::<f32>()).sum::<f32>() - 6.0;
WpInit ==
    /\ wpWeight \in PerturbWeights
    /\ wpCap \in PerturbCaps
    /\ wpPert \in InitialPerturbations
    /\ wpSteps = 0
    /\ wpPc = "loop"

\* One pass through the while loop's body.
WpContract ==
    /\ wpPc = "loop"
    /\ OutOfCap(wpWeight, wpCap, wpPert)
    /\ wpSteps < MaxSteps
    /\ wpPert' = Contract(wpPert)
    /\ wpSteps' = wpSteps + 1
    /\ UNCHANGED <<wpWeight, wpCap, wpPc, genomeVars, geneVars>>

\* The loop condition is false: weight + perturbation is returned.
WpReturn ==
    /\ wpPc = "loop"
    /\ ~OutOfCap(wpWeight, wpCap, wpPert)
    /\ wpPc' = "done"
    /\ UNCHANGED <<wpWeight, wpCap, wpPert, wpSteps, genomeVars, geneVars>>

\* The value returned once the loop is left.
WpReturned == wpWeight + wpPert

NextPerturb ==
    \/ WpContract
    \/ WpReturn

\* --------------------------------------------------------- specifications

Init == GenomeInit /\ GeneInitIdle /\ WpInitIdle

\* Calls of add_recurrent_connection on a genome.
Next == AddRecurrentConnection

Spec == Init /\ [][Next]_vars

\* Calls of Mutations::mutate, any variant, on a genome.
InitMutate == MutateGenomeInit /\ GeneInitIdle /\ WpInitIdle

SpecMutate == InitMutate /\ [][Mutate]_vars

\* One call of weight_perturbation.
InitPerturb == GenomeIdle /\ GeneInitIdle /\ WpInit

SpecPerturb == InitPerturb /\ [][NextPerturb]_vars

\* Connection genes created, cloned, recombined, perturbed and asked for ids.
InitGene == GenomeIdle /\ GeneInitIdle /\ WpInitIdle

SpecGene == InitGene /\ [][NextGene]_vars

\* ------------------------------------------------- add_recurrent_connection

\* Some pair the documentation of add_recurrent_connection calls possible: a
\* start node, another node to end in, no recurrent connection between them.
PossiblePair ==
    \E s \in SeqSet(StartNodes), e \in SeqSet(EndNodes) :
        /\ s # e
        /\ ~Contains(recurrent, ConnectionNew(s, 0, e))

NodesAndFeedForward == <<inputs, hidden, outputs, activations, feed_forward>>

\* C1: whenever a possible pair exists, add_recurrent_connection returns Ok
\* and inserts a connection, whatever the random offset.
C1_AddsWheneverPossible ==
    [][(invoked' = <<"add_recurrent_connection">> /\ PossiblePair)
          => (result' = "Ok" /\ recurrent' # recurrent)]_vars

\* C2: with no possible pair the call returns CouldNotAddRecurrentConnection,
\* that error is the only failure, and a failed call leaves the genome as it
\* was.
C2_FailureTypedAndAtomic ==
    [][invoked' = <<"add_recurrent_connection">>
          => /\ ~PossiblePair => result' = "CouldNotAddRecurrentConnection"
             /\ result' # "Ok" => /\ result' = "CouldNotAddRecurrentConnection"
                                  /\ Genome' = Genome]_vars

\* A saturated genome on which a call has failed.
C2_Witness ==
    /\ result = "CouldNotAddRecurrentConnection"
    /\ recurrent # {}
    /\ ~PossiblePair

\* C3: a call that does not fail returns Ok (the assert! holds) and adds
\* exactly one recurrent connection whose (input, output) was absent; the old
\* connections, the nodes and the feed-forward set stay, and no two recurrent
\* connections share (input, output).
C3_ExactlyOneNewConnection ==
    [][(invoked' = <<"add_recurrent_connection">>
           /\ result' # "CouldNotAddRecurrentConnection")
          => /\ result' = "Ok"
             /\ \E c \in recurrent' :
                   /\ ~Contains(recurrent, c)
                   /\ recurrent' = recurrent \cup {c}
             /\ Cardinality(recurrent') = Cardinality(recurrent) + 1
             /\ \A a, b \in recurrent' : ConnectionEq(a, b) => a = b
             /\ UNCHANGED NodesAndFeedForward]_vars

\* A successful call whose genome joins one endpoint pair by a feed-forward
\* and by a recurrent connection.
C3_Witness ==
    /\ result = "Ok"
    /\ invoked = <<"add_recurrent_connection">>
    /\ \E c \in recurrent, f \in feed_forward : ConnectionEq(c, f)

\* C4: every recurrent connection ends in a hidden or output node, never in
\* an input node, starts in a node of the genome and is no self-loop.
C4_RecurrentEndpoints ==
    \A c \in recurrent :
        /\ c.output \in SeqSet(hidden) \cup SeqSet(outputs)
        /\ c.output \notin SeqSet(inputs)
        /\ c.input \in SeqSet(inputs) \cup SeqSet(hidden) \cup SeqSet(outputs)
        /\ c.input # c.output

\* Recurrent connections starting in an input, a hidden and an output node.
C4_Witness ==
    /\ \E c \in recurrent : c.input \in SeqSet(inputs)
    /\ \E c \in recurrent : c.input \in SeqSet(hidden)
    /\ \E c \in recurrent : c.input \in SeqSet(outputs)

\* ------------------------------------------------------ weight_perturbation

\* C5: called with a weight within the cap, weight_perturbation returns a
\* value within [-cap, cap].
C5_PerturbationWithinCap ==
    (wpPc = "done" /\ -wpCap <= wpWeight /\ wpWeight <= wpCap)
        => (-wpCap <= WpReturned /\ WpReturned <= wpCap)

\* A call with the weight on the cap that returned after contracting the
\* perturbation three times or more.
C5_Witness ==
    /\ wpPc = "done"
    /\ wpWeight = wpCap
    /\ wpSteps >= 3
    /\ WpReturned # wpWeight

\* C6: for every weight, cap and initial perturbation the contraction loop is
\* left after a small bounded number of steps: it never takes more than 40.
C6_LoopLeftWithinBound ==
    wpSteps <= 40

\* ---------------------------------------------------------- Connection

\* C7: the ids one instance returns from successive next_id calls are
\* pairwise distinct.
C7_IdsFresh ==
    \A x \in BagToSet(genes) :
        \A i, j \in 1 .. Len(x.issued) : i # j => x.issued[i] # x.issued[j]

\* An instance that has returned two ids or more.
C7_Witness ==
    \E x \in BagToSet(genes) : Len(x.issued) >= 2

\* C8: id_counter never decreases; a new instance starts at 0, a clone or a
\* recombined child at its source's counter; only next_id changes the counter,
\* by one, leaving the other fields; and no instance returns an id that its
\* source had returned before the instance was copied from it.
C8_IdCounterMonotone ==
    [][/\ \/ \E y \in BagToSet(genes') :
                /\ genes' = genes (+) One(y)
                /\ y.gene = lastGeneOp'.child
                /\ lastGeneOp'.op \in {"new", "clone", "recombine"}
                /\ lastGeneOp'.op = "new" => y.gene.id_counter = 0
                /\ lastGeneOp'.op # "new" =>
                      /\ \E x \in BagToSet(genes) : x.gene = lastGeneOp'.self
                      /\ y.gene.id_counter = lastGeneOp'.self.id_counter
          \/ \E x \in BagToSet(genes), y \in BagToSet(genes') :
                /\ genes' = (genes (-) One(x)) (+) One(y)
                /\ y.gene.id_counter >= x.gene.id_counter
                /\ y.gene.id_counter # x.gene.id_counter =>
                      /\ lastGeneOp'.op = "next_id"
                      /\ y.gene = [x.gene EXCEPT !.id_counter = @ + 1]
       /\ \A y \in BagToSet(genes') : SeqSet(y.issued) \cap y.inherited = {}]_geneVars

\* A copy whose source had returned ids and which has returned ids itself.
C8_Witness ==
    \E x \in BagToSet(genes) : x.inherited # {} /\ x.issued # << >>

\* C9: recombine returns self's input, output and id_counter with other's
\* weight and leaves the parents as they are; so the child equals self, equals
\* other when the parents share identity, and recombine(a, a) has a's fields.
C9_Recombine ==
    [][lastGeneOp'.op = "recombine"
          => LET self == lastGeneOp'.self
                 other == lastGeneOp'.other
                 child == lastGeneOp'.child
             IN /\ child.input = self.input
                /\ child.output = self.output
                /\ child.id_counter = self.id_counter
                /\ child.weight = other.weight
                /\ \E x, y \in BagToSet(genes) : x.gene = self /\ y.gene = other
                /\ \E z \in BagToSet(genes') : z.gene = child /\ genes' = genes (+) One(z)
                /\ ConnectionEq(child, self)
                /\ ConnectionEq(self, other) => ConnectionEq(child, other)
                /\ self = other => child = self]_geneVars

\* A child of two parents that differ in identity, weight and id_counter.
C9_Witness ==
    /\ lastGeneOp.op = "recombine"
    /\ ~ConnectionEq(lastGeneOp.self, lastGeneOp.other)
    /\ lastGeneOp.self.weight # lastGeneOp.other.weight
    /\ lastGeneOp.self.id_counter # lastGeneOp.other.id_counter

\* -------------------------------------------------------- Mutations::mutate

\* The operator each variant's arm calls.
OperatorOf ==
    [ChangeWeights |-> "change_weights",
     ChangeActivation |-> "change_activation",
     AddNode |-> "add_node",
     AddConnection |-> "add_connection",
     AddRecurrentConnection |-> "add_recurrent_connection",
     RemoveNode |-> "remove_node",
     RemoveConnection |-> "remove_connection",
     RemoveRecurrentConnection |-> "remove_recurrent_connection"]

\* The error of each variant that has one.
ErrorOf ==
    [AddConnection |-> "CouldNotAddConnection",
     AddRecurrentConnection |-> "CouldNotAddRecurrentConnection",
     RemoveNode |-> "CouldNotRemoveNode",
     RemoveConnection |-> "CouldNotRemoveConnection",
     RemoveRecurrentConnection |-> "CouldNotRemoveRecurrentConnection"]

\* C10: a call of mutate invokes its variant's operator exactly once when the
\* draw is below chance and not at all otherwise; a skipped call returns Ok
\* and leaves the genome; a call that does not return Ok returns the invoked
\* operator's own error and leaves the genome.
C10_MutateGated ==
    [][mutations' # mutations
          => /\ gate'.draw < gate'.chance => invoked' = <<OperatorOf[gate'.variant]>>
             /\ ~(gate'.draw < gate'.chance) =>
                   /\ invoked' = << >>
                   /\ Genome' = Genome
                   /\ result' = "Ok"
             /\ result' # "Ok" =>
                   /\ invoked' # << >>
                   /\ gate'.variant \in DOMAIN ErrorOf
                   /\ result' = ErrorOf[gate'.variant]
                   /\ Genome' = Genome]_vars

\* A call of mutate whose add_recurrent_connection found the genome saturated.
C10_Witness ==
    /\ gate.variant = "AddRecurrentConnection"
    /\ result = "CouldNotAddRecurrentConnection"
    /\ recurrent # {}

====
